---- MODULE Spec2Model ----
(***************************************************************************)
(* Model of nix/extract-uncovered-snippets.py: the LCOV parser             *)
(* (parse_lcov), the range compactor (format_line_ranges) and the report   *)
(* generator (generate_report).                                            *)
(*                                                                         *)
(* Python strings that the program builds are sequences of one-character   *)
(* strings (<<"1", "-", "3">> is "1-3"); Optional values are <<>> for None *)
(* and <<x>> for a value x; a dict is a function on its set of keys.       *)
(***************************************************************************)
EXTENDS Integers, Sequences, FiniteSets, TLC

VARIABLES
    pc,               \* position of the running function
    line_numbers,     \* format_line_ranges: its argument
    formatted,        \* format_line_ranges: its return value
    input,            \* parse_lcov: the lines of the LCOV file read so far
    uncovered_lines,  \* parse_lcov's dict / generate_report's argument
    current_file,     \* parse_lcov: Optional[str]
    is_project_file,  \* parse_lcov: bool
    context,          \* generate_report: its context argument
    sorted_files,     \* generate_report: the sorted keys with uncovered lines
    file_idx,         \* generate_report: position of the for loop in sorted_files
    source_lines,     \* generate_report: what read_source_file last returned
    uncovered_nums,   \* generate_report: the sorted line numbers of the last file
    groups,           \* generate_report: the groups of the last file
    report,           \* generate_report: the report built so far
    disk              \* what read_source_file returns for each file identifier

vars == <<pc, line_numbers, formatted, input, uncovered_lines, current_file,
          is_project_file, context, sorted_files, file_idx, source_lines,
          uncovered_nums, groups, report, disk>>

formatVars == <<line_numbers, formatted>>
parseVars == <<input, current_file, is_project_file>>
reportVars == <<context, sorted_files, file_idx, source_lines, uncovered_nums,
                groups, report, disk>>

----------------------------------------------------------------------------
(* Bounds of the model.                                                    *)

\* format_line_ranges: longest argument and largest line number tried
MaxLen == 4
MaxNum == 11

\* parse_lcov: most lines of an LCOV file
MaxInput == 4

\* generate_report: most uncovered line numbers in its argument, the largest
\* of them, the largest context and the longest source file
MaxTotal == 3
MaxLine == 4
MaxContext == 1
MaxSrcLen == 2

----------------------------------------------------------------------------
(* Python values.                                                          *)

None == <<>>

Some(x) == <<x>>

EmptyDict == [p \in {} |-> <<>>]

Range(s) == {s[i] : i \in 1..Len(s)}

SetMin(S) == CHOOSE x \in S : \A y \in S : x <= y

SetMax(S) == CHOOSE x \in S : \A y \in S : y <= x

Digit(d) == <<"0", "1", "2", "3", "4", "5", "6", "7", "8", "9">>[d + 1]

\* str(n) of a non-negative int: its decimal digits
RECURSIVE Str(_)
Str(n) == IF n < 10 THEN <<Digit(n)>> ELSE Str(n \div 10) \o <<Digit(n % 10)>>

\* ", ".join(items)
RECURSIVE Join(_)
Join(items) ==
    IF items = <<>> THEN <<>>
    ELSE IF Len(items) = 1 THEN items[1]
    ELSE items[1] \o <<",", " ">> \o Join(Tail(items))

----------------------------------------------------------------------------
(* format_line_ranges                                                      *)

ContinuesRangeAnyIncrease(num, end) == num > end

\* the test that extends the current range
ContinuesRange(num, end) == num = end + 1

FormatRangeAlwaysDashed(start, end) == Str(start) \o <<"-">> \o Str(end)

\* the text of one closed range
FormatRange(start, end) ==
    IF start = end THEN Str(start) ELSE Str(start) \o <<"-">> \o Str(end)

\* the for loop over line_numbers[1:], then the final range and the join
RECURSIVE FormatLoop(_, _, _, _, _)
FormatLoop(nums, i, start, end, ranges) ==
    IF i > Len(nums) THEN Join(Append(ranges, FormatRange(start, end)))
    ELSE IF ContinuesRange(nums[i], end)
         THEN FormatLoop(nums, i + 1, start, nums[i], ranges)
         ELSE FormatLoop(nums, i + 1, nums[i], nums[i],
                         Append(ranges, FormatRange(start, end)))

format_line_ranges(nums) ==
    IF nums = <<>> THEN <<>>
    ELSE FormatLoop(nums, 2, nums[1], nums[1], <<>>)

----------------------------------------------------------------------------
(* Specification of format_line_ranges on its own: every ascending list of *)
(* at most MaxLen line numbers in 0..MaxNum, and the docstring's examples. *)

IsAscending(s) == \A i \in 1..(Len(s) - 1) : s[i] <= s[i + 1]

DocExamples ==
    { <<213, 214, 215, 216, 222, 223, 224, 225, 232>>, <<1, 3, 5>> }

FormatInputs ==
    { s \in UNION { [1..n -> 0..MaxNum] : n \in 0..MaxLen } : IsAscending(s) }
        \cup DocExamples

IdleFormat == line_numbers = <<>> /\ formatted = <<>>

IdleParse == input = <<>> /\ current_file = None /\ is_project_file = FALSE

NoReport ==
    [context |-> 0, total_files |-> 0, total_uncovered |-> 0,
     sections |-> <<>>, footer |-> FALSE]

IdleReport ==
    /\ context = 0
    /\ sorted_files = <<>>
    /\ file_idx = 0
    /\ source_lines = None
    /\ uncovered_nums = <<>>
    /\ groups = <<>>
    /\ report = NoReport
    /\ disk = EmptyDict

InitFormat ==
    /\ pc = "format_call"
    /\ line_numbers \in FormatInputs
    /\ formatted = <<>>
    /\ uncovered_lines = EmptyDict
    /\ IdleParse
    /\ IdleReport

FormatCall ==
    /\ pc = "format_call"
    /\ formatted' = format_line_ranges(line_numbers)
    /\ pc' = "format_done"
    /\ UNCHANGED <<line_numbers, uncovered_lines, parseVars, reportVars>>

NextFormat == FormatCall

SpecFormat == InitFormat /\ [][NextFormat]_vars

----------------------------------------------------------------------------
(* Reading a compacted text back, as a reader of the report does: split on *)
(* commas, drop the blanks around each item, read "a-b" as a..b and a bare *)
(* number as itself.                                                       *)

DigitValue(c) == CHOOSE d \in 0..9 : Digit(d) = c

RECURSIVE ParseNat(_)
ParseNat(digits) ==
    IF Len(digits) = 1 THEN DigitValue(digits[1])
    ELSE 10 * ParseNat(SubSeq(digits, 1, Len(digits) - 1))
         + DigitValue(digits[Len(digits)])

\* text.split(ch)
RECURSIVE SplitOn(_, _)
SplitOn(text, ch) ==
    IF ch \notin Range(text) THEN <<text>>
    ELSE LET k == SetMin({i \in 1..Len(text) : text[i] = ch})
         IN  <<SubSeq(text, 1, k - 1)>> \o SplitOn(SubSeq(text, k + 1, Len(text)), ch)

\* item.strip()
RECURSIVE Strip(_)
Strip(item) ==
    IF item # <<>> /\ item[1] = " " THEN Strip(Tail(item))
    ELSE IF item # <<>> /\ item[Len(item)] = " "
         THEN Strip(SubSeq(item, 1, Len(item) - 1))
         ELSE item

ExpandItem(item) ==
    IF "-" \in Range(item)
    THEN LET ends == SplitOn(item, "-") IN ParseNat(ends[1])..ParseNat(ends[2])
    ELSE {ParseNat(item)}

Expand(text) ==
    IF text = <<>> THEN {}
    ELSE UNION { ExpandItem(Strip(piece)) : piece \in Range(SplitOn(text, ",")) }

(* The maximal runs of an ascending list, by position: a run starts at the *)
(* first position and wherever an element is not its predecessor plus one, *)
(* and ends right before the next start.                                   *)

RunStarts(s) == {i \in 1..Len(s) : i = 1 \/ s[i] # s[i - 1] + 1}

RunEnd(s, i) == SetMax({j \in i..Len(s) : \A k \in (i + 1)..j : s[k] = s[k - 1] + 1})

NthSmallest(S, n) == CHOOSE x \in S : Cardinality({y \in S : y < x}) = n - 1

RunItem(s, i) ==
    IF RunEnd(s, i) = i THEN Str(s[i])
    ELSE Str(s[i]) \o <<"-">> \o Str(s[RunEnd(s, i)])

RunItems(s) ==
    [n \in 1..Cardinality(RunStarts(s)) |-> RunItem(s, NthSmallest(RunStarts(s), n))]

DocOutput1 == <<"2", "1", "3", "-", "2", "1", "6", ",", " ", "2", "2", "2", "-", "2", "2", "5", ",", " ", "2", "3", "2">>

DocOutput2 == <<"1", ",", " ", "3", ",", " ", "5">>

\* C1: expanding the text format_line_ranges returns for an ascending list
\* (commas split, "a-b" read as a..b, a bare number as itself) gives exactly
\* the set of the list's numbers.
C1_RoundTrip ==
    pc = "format_done" => Expand(formatted) = Range(line_numbers)

C1_Witness ==
    /\ pc = "format_done"
    /\ Len(line_numbers) >= 4
    /\ \E i \in 1..Len(line_numbers) : line_numbers[i] >= 10
    /\ "-" \in Range(formatted)
    /\ "," \in Range(formatted)
    /\ \E i \in RunStarts(line_numbers) : RunEnd(line_numbers, i) = i

\* C2: format_line_ranges returns one item per maximal run of consecutive
\* values, in input order, joined by ", ": "start-end" for a run of two or
\* more values and the bare number for an isolated value; the empty list
\* gives the empty string, a one-element list gives that number, and the
\* docstring's two examples give the documented texts.
C2_OneItemPerMaximalRun ==
    pc = "format_done" =>
        /\ formatted = Join(RunItems(line_numbers))
        /\ line_numbers = <<>> => formatted = <<>>
        /\ Len(line_numbers) = 1 => formatted = Str(line_numbers[1])
        /\ line_numbers = <<213, 214, 215, 216, 222, 223, 224, 225, 232>>
               => formatted = DocOutput1
        /\ line_numbers = <<1, 3, 5>> => formatted = DocOutput2

C2_Witness ==
    /\ pc = "format_done"
    /\ line_numbers = <<213, 214, 215, 216, 222, 223, 224, 225, 232>>
    /\ formatted = DocOutput1
    /\ Cardinality(RunStarts(line_numbers)) = 3

----------------------------------------------------------------------------
(* parse_lcov.  A line of the LCOV file is read as one of                  *)
(*   SF:<path>                 [tag |-> "SF", path]                        *)
(*   DA:<line>,<hits>          [tag |-> "DA", line_num, hit_count]         *)
(*   DA:... the regex rejects  [tag |-> "DA_malformed"]                    *)
(*   end_of_record             [tag |-> "end_of_record"]                   *)
(*   anything else             [tag |-> "other"]                           *)

\* the paths the SF lines name, the empty one (a bare "SF:") included
LcovPaths == {"", "src/lib.rs", "src/main.rs", "/nix/store/dep/lib.rs"}

\* the paths of LcovPaths that contain "/nix/store"
ContainsNixStore(file_path) == file_path \in {"/nix/store/dep/lib.rs"}

\* the line numbers and hit counts the DA lines carry
LcovLineNums == {1, 2}

LcovHitCounts == {0, 1}

SFLine(p) == [tag |-> "SF", path |-> p]

DALine(n, h) == [tag |-> "DA", line_num |-> n, hit_count |-> h]

MalformedDALine == [tag |-> "DA_malformed"]

EndOfRecordLine == [tag |-> "end_of_record"]

OtherLine == [tag |-> "other"]

\* bool(current_file): None and the empty string are false
Truthy(opt) == opt # None /\ opt[1] # ""

IsProjectFileAlways(file_path) == TRUE

\* is_project_file = "/nix/store" not in file_path
IsProjectFile(file_path) == ~ContainsNixStore(file_path)

\* the guard of the DA branch: ... and current_file and is_project_file
DataLineGuard(cur, proj) == Truthy(cur) /\ proj

ParserState == [uncovered_lines |-> uncovered_lines,
                current_file |-> current_file,
                is_project_file |-> is_project_file]

\* the branch of a line that starts with "SF:"
OnSF(st, file_path) ==
    LET proj == IsProjectFile(file_path)
        d == st.uncovered_lines
    IN  [uncovered_lines |->
             IF proj /\ file_path \notin DOMAIN d
             THEN [q \in DOMAIN d \cup {file_path} |->
                      IF q = file_path THEN <<>> ELSE d[q]]
             ELSE d,
         current_file |-> Some(file_path),
         is_project_file |-> proj]

\* the branch of a line that starts with "DA:" and matches the regex
OnDA(st, line_num, hit_count) ==
    IF DataLineGuard(st.current_file, st.is_project_file) /\ hit_count = 0
    THEN [st EXCEPT !.uncovered_lines[st.current_file[1]] = Append(@, line_num)]
    ELSE st

\* the branch of the line "end_of_record"
OnEndOfRecord(st) ==
    [st EXCEPT !.current_file = None, !.is_project_file = FALSE]

\* one iteration of the loop over the file's lines
ParseLine(st, line) ==
    CASE line.tag = "SF" -> OnSF(st, line.path)
      [] line.tag = "DA" -> OnDA(st, line.line_num, line.hit_count)
      [] line.tag = "end_of_record" ->
           \* a DA line comes first in the elif chain, so this branch is
           \* only reached by the line "end_of_record" itself
           OnEndOfRecord(st)
      [] OTHER -> st

\* parse_lcov on a whole file
RECURSIVE ParseLines(_, _)
ParseLines(st, lines) ==
    IF lines = <<>> THEN st ELSE ParseLines(ParseLine(st, lines[1]), Tail(lines))

parse_lcov(lines) ==
    ParseLines([uncovered_lines |-> EmptyDict, current_file |-> None,
                is_project_file |-> FALSE], lines).uncovered_lines

InitParse ==
    /\ pc = "parse"
    /\ input = <<>>
    /\ uncovered_lines = EmptyDict
    /\ current_file = None
    /\ is_project_file = FALSE
    /\ IdleFormat
    /\ IdleReport

ReadLine(line, st) ==
    /\ pc = "parse"
    /\ Len(input) < MaxInput
    /\ input' = Append(input, line)
    /\ uncovered_lines' = st.uncovered_lines
    /\ current_file' = st.current_file
    /\ is_project_file' = st.is_project_file
    /\ UNCHANGED <<pc, formatVars, reportVars>>

ReadSF ==
    \E p \in LcovPaths : ReadLine(SFLine(p), OnSF(ParserState, p))

ReadDA ==
    \E n \in LcovLineNums, h \in LcovHitCounts :
        ReadLine(DALine(n, h), OnDA(ParserState, n, h))

ReadMalformedDA == ReadLine(MalformedDALine, ParserState)

ReadEndOfRecord == ReadLine(EndOfRecordLine, OnEndOfRecord(ParserState))

ReadOther == ReadLine(OtherLine, ParserState)

\* the end of the file: parse_lcov returns uncovered_lines
ReturnParsed ==
    /\ pc = "parse"
    /\ pc' = "parsed"
    /\ UNCHANGED <<input, uncovered_lines, current_file, is_project_file,
                   formatVars, reportVars>>

NextParse ==
    \/ ReadSF
    \/ ReadDA
    \/ ReadMalformedDA
    \/ ReadEndOfRecord
    \/ ReadOther
    \/ ReturnParsed

SpecParse == InitParse /\ [][NextParse]_vars

(* Which section a line of the input belongs to, by position: the last SF  *)
(* or end_of_record line before it decides.                                *)

Governing(inp, i) ==
    LET J == {j \in 1..(i - 1) : inp[j].tag \in {"SF", "end_of_record"}}
    IN  IF J = {} THEN 0 ELSE SetMax(J)

\* the file whose section line i is read in, None outside every section
Owner(inp, i) ==
    LET g == Governing(inp, i)
    IN  IF g # 0 /\ inp[g].tag = "SF" THEN Some(inp[g].path) ELSE None

IsZeroHitOf(inp, i, p) ==
    /\ inp[i].tag = "DA"
    /\ inp[i].hit_count = 0
    /\ Owner(inp, i) = Some(p)

\* the line numbers of the zero-hit DA lines read in the sections of p
OwnZeroHit(inp, p) ==
    LET Mine(i) == IsZeroHitOf(inp, i, p)
        sel == SelectSeq([i \in 1..Len(inp) |-> i], Mine)
    IN  [k \in 1..Len(sel) |-> inp[sel[k]].line_num]

RECURSIVE IsSubSeq(_, _)
IsSubSeq(a, b) ==
    IF a = <<>> THEN TRUE
    ELSE IF b = <<>> THEN FALSE
    ELSE IF a[1] = b[1] THEN IsSubSeq(Tail(a), Tail(b))
    ELSE IsSubSeq(a, Tail(b))

\* the input without its excluded sections: an SF line of an excluded file
\* only ends the section before it, and the lines read in its section are gone
WithoutExcluded(inp) ==
    LET Kept(i) ==
            \/ inp[i].tag \in {"SF", "end_of_record"}
            \/ Owner(inp, i) = None
            \/ ~ContainsNixStore(Owner(inp, i)[1])
        sel == SelectSeq([i \in 1..Len(inp) |-> i], Kept)
    IN  [k \in 1..Len(sel) |->
            IF inp[sel[k]].tag = "SF" /\ ContainsNixStore(inp[sel[k]].path)
            THEN EndOfRecordLine ELSE inp[sel[k]]]

\* C3: a file whose identifier contains "/nix/store" is never a key of
\* parse_lcov's result, however often SF lines name it; every list holds only
\* zero-hit data lines read in its own file's sections, in order (all of
\* them, for a file whose identifier is not empty); and the result is the
\* one the same input gives without its excluded sections.
C3_ExcludedNeverCollected ==
    /\ \A p \in DOMAIN uncovered_lines : ~ContainsNixStore(p)
    /\ \A p \in DOMAIN uncovered_lines :
           /\ IsSubSeq(uncovered_lines[p], OwnZeroHit(input, p))
           /\ p # "" => uncovered_lines[p] = OwnZeroHit(input, p)
    /\ uncovered_lines = parse_lcov(WithoutExcluded(input))

C3_Witness ==
    /\ pc = "parsed"
    /\ \E i, j \in 1..Len(input) :
           /\ i < j
           /\ input[i].tag = "SF" /\ ~ContainsNixStore(input[i].path)
           /\ input[j].tag = "SF" /\ ContainsNixStore(input[j].path)
           /\ \A k \in (i + 1)..(j - 1) : input[k].tag = "DA"
           /\ \E k \in (j + 1)..Len(input) :
                  IsZeroHitOf(input, k, input[j].path)
           /\ input[i].path \in DOMAIN uncovered_lines
           /\ uncovered_lines[input[i].path] # <<>>

\* C4 (as claimed): for a DA line read in the open section of an in-scope
\* file, a zero hit count puts its line number in that file's list, and a
\* non-zero hit count does not (the number is in the list only if a zero-hit
\* DA line of the same section's file carries it).
C4_DataLineCollectedIffZeroHits ==
    \A i \in 1..Len(input) :
        (input[i].tag = "DA" /\ Owner(input, i) # None
             /\ ~ContainsNixStore(Owner(input, i)[1])) =>
            LET p == Owner(input, i)[1]
                n == input[i].line_num
            IN  /\ p \in DOMAIN uncovered_lines
                /\ input[i].hit_count = 0 => n \in Range(uncovered_lines[p])
                /\ input[i].hit_count # 0 =>
                       (n \in Range(uncovered_lines[p]) =>
                            n \in Range(OwnZeroHit(input, p)))

----------------------------------------------------------------------------
(* generate_report.  The report is kept by its parts instead of its text:  *)
(* the preamble's context, the summary's two totals, one section per file  *)
(* (its heading, the warning or the snippets, the compacted ranges) and    *)
(* the footer.  A snippet holds its number, the two line numbers of its    *)
(* heading and its rendered lines, each with its marker, number and text.  *)

\* the file identifiers of the report's argument, in Python's string order
ReportFiles == <<"src/lib.rs", "src/main.rs">>

Max(a, b) == IF a >= b THEN a ELSE b

Min(a, b) == IF a <= b THEN a ELSE b

\* sorted(nums)
RECURSIVE Insert(_, _)
Insert(x, s) ==
    IF s = <<>> THEN <<x>>
    ELSE IF x < s[1] THEN <<x>> \o s
    ELSE <<s[1]>> \o Insert(x, Tail(s))

RECURSIVE Sorted(_)
Sorted(nums) ==
    IF nums = <<>> THEN <<>> ELSE Insert(nums[Len(nums)], Sorted(SubSeq(nums, 1, Len(nums) - 1)))

\* lines[start_idx:end_idx] for 0 <= start_idx and 0 <= end_idx <= len(lines)
Slice(lines, start_idx, end_idx) ==
    IF start_idx >= end_idx THEN <<>> ELSE SubSeq(lines, start_idx + 1, end_idx)

\* sorted(files_with_uncovered.keys())
SortedFiles(d) ==
    LET HasUncovered(f) == f \in DOMAIN d /\ d[f] # <<>>
    IN  SelectSeq(ReportFiles, HasUncovered)

RECURSIVE SumLen(_, _)
SumLen(d, files) ==
    IF files = <<>> THEN 0 ELSE Len(d[files[1]]) + SumLen(d, Tail(files))

ExtendsGroupWithinContext(line_num, last, ctx) == line_num - last <= ctx

ExtendsGroupStrict(line_num, last, ctx) == line_num - last < 2 * ctx

\* the test that extends the current group
ExtendsGroup(line_num, last, ctx) == line_num - last <= 2 * ctx

\* the loop that builds groups
RECURSIVE GroupLoop(_, _, _, _)
GroupLoop(nums, i, gs, ctx) ==
    IF i > Len(nums) THEN gs
    ELSE IF gs # <<>> /\ ExtendsGroup(nums[i], gs[Len(gs)][Len(gs[Len(gs)])], ctx)
         THEN GroupLoop(nums, i + 1,
                        [gs EXCEPT ![Len(gs)] = Append(@, nums[i])], ctx)
         ELSE GroupLoop(nums, i + 1, Append(gs, <<nums[i]>>), ctx)

GroupsOf(nums, ctx) == GroupLoop(nums, 1, <<>>, ctx)

IsGroupMemberFirstOnly(actual_line_num, group) == actual_line_num = group[1]

\* actual_line_num in group
IsGroupMember(actual_line_num, group) == actual_line_num \in Range(group)

\* one iteration of the loop over the groups
SnippetOf(group_idx, group, src, ctx) ==
    LET min_line == SetMin(Range(group))
        max_line == SetMax(Range(group))
        start_idx == Max(0, min_line - 1 - ctx)
        end_idx == Min(Len(src), max_line + ctx)
        start_line == start_idx + 1
        snippet == Slice(src, start_idx, end_idx)
        end_line == start_line + Len(snippet) - 1
    IN  [idx |-> group_idx,
         start_line |-> start_line,
         end_line |-> end_line,
         lines |-> [i \in 1..Len(snippet) |->
                       [marker |-> IF IsGroupMember(start_line + i - 1, group)
                                   THEN "uncovered" ELSE "context",
                        num |-> start_line + i - 1,
                        text |-> snippet[i]]]]

\* the section of a file that could not be read
WarningSection(file, nums) ==
    [file |-> file, kind |-> "warning",
     ranges |-> format_line_ranges(nums), snippets |-> <<>>]

\* the section of a file that was read
SnippetSection(file, nums, gs, src, ctx) ==
    [file |-> file, kind |-> "snippets",
     ranges |-> format_line_ranges(nums),
     snippets |-> [k \in 1..Len(gs) |-> SnippetOf(k, gs[k], src, ctx)]]

AfterUnreadableStop(idx, files) == Len(files) + 1

\* continue: the loop goes on with the next file
AfterUnreadable(idx, files) == idx + 1

\* what read_source_file can return: None for a file it cannot open, or the
\* file's lines (line i of a file is the token i: the texts play no part).
\* disk[f] is its answer for the path that identifier f resolves to
\* (absolute as it is, else under src_root if that exists, else as it is).
ReadResults == {None} \cup { Some([i \in 1..n |-> i]) : n \in 0..MaxSrcLen }

FileSet == Range(ReportFiles)

\* the list a file gets from the zero-hit DA lines e, each <<file, line>>
LinesOf(e, f) ==
    LET Mine(x) == x[1] = f
        sel == SelectSeq(e, Mine)
    IN  [k \in 1..Len(sel) |-> sel[k][2]]

\* the dict parse_lcov returns when the SF lines name the files of keys and
\* the zero-hit DA lines are e
DictOf(keys, e) ==
    [f \in keys \cup {e[i][1] : i \in 1..Len(e)} |-> LinesOf(e, f)]

\* the dicts parse_lcov can return for at most MaxTotal zero-hit DA lines
\* with line numbers up to MaxLine
ReportInputs ==
    { DictOf(keys, e) :
        keys \in SUBSET FileSet,
        e \in UNION { [1..k -> FileSet \X (0..MaxLine)] : k \in 0..MaxTotal } }

InitReport ==
    /\ pc = "report_call"
    /\ uncovered_lines \in ReportInputs
    /\ context \in 0..MaxContext
    /\ disk \in [FileSet -> ReadResults]
    /\ sorted_files = <<>>
    /\ file_idx = 0
    /\ source_lines = None
    /\ uncovered_nums = <<>>
    /\ groups = <<>>
    /\ report = NoReport
    /\ IdleFormat
    /\ IdleParse

\* the preamble and the summary
BeginReport ==
    /\ pc = "report_call"
    /\ sorted_files' = SortedFiles(uncovered_lines)
    /\ report' = [context |-> context,
                  total_files |-> Len(SortedFiles(uncovered_lines)),
                  total_uncovered |-> SumLen(uncovered_lines, SortedFiles(uncovered_lines)),
                  sections |-> <<>>,
                  footer |-> FALSE]
    /\ file_idx' = 1
    /\ pc' = "report_loop"
    /\ UNCHANGED <<uncovered_lines, context, disk, source_lines, uncovered_nums,
                   groups, formatVars, parseVars>>

\* an iteration of the loop over sorted_files whose file cannot be read
ProcessUnreadableFile ==
    /\ pc = "report_loop"
    /\ file_idx <= Len(sorted_files)
    /\ disk[sorted_files[file_idx]] = None
    /\ source_lines' = None
    /\ uncovered_nums' = Sorted(uncovered_lines[sorted_files[file_idx]])
    /\ report' = [report EXCEPT !.sections =
                     Append(@, WarningSection(sorted_files[file_idx], uncovered_nums'))]
    /\ file_idx' = AfterUnreadable(file_idx, sorted_files)
    /\ UNCHANGED <<pc, uncovered_lines, context, disk, sorted_files, groups,
                   formatVars, parseVars>>

\* an iteration of the loop over sorted_files whose file is read
ProcessReadableFile ==
    /\ pc = "report_loop"
    /\ file_idx <= Len(sorted_files)
    /\ disk[sorted_files[file_idx]] # None
    /\ source_lines' = disk[sorted_files[file_idx]]
    /\ uncovered_nums' = Sorted(uncovered_lines[sorted_files[file_idx]])
    /\ groups' = GroupsOf(uncovered_nums', context)
    /\ report' = [report EXCEPT !.sections =
                     Append(@, SnippetSection(sorted_files[file_idx], uncovered_nums',
                                              groups', source_lines'[1], context))]
    /\ file_idx' = file_idx + 1
    /\ UNCHANGED <<pc, uncovered_lines, context, disk, sorted_files,
                   formatVars, parseVars>>

\* the footer; generate_report returns the report
FinishReport ==
    /\ pc = "report_loop"
    /\ file_idx > Len(sorted_files)
    /\ report' = [report EXCEPT !.footer = TRUE]
    /\ pc' = "report_done"
    /\ UNCHANGED <<uncovered_lines, context, disk, sorted_files, file_idx,
                   source_lines, uncovered_nums, groups, formatVars, parseVars>>

NextReport ==
    \/ BeginReport
    \/ ProcessUnreadableFile
    \/ ProcessReadableFile
    \/ FinishReport

SpecReport == InitReport /\ [][NextReport]_vars

(* What the claims about generate_report read: after an iteration that     *)
(* read its file, uncovered_nums, groups and source_lines are that file's, *)
(* and the report's last section is the one the iteration appended.        *)

JustRead ==
    /\ pc \in {"report_loop", "report_done"}
    /\ source_lines # None
    /\ report.sections # <<>>

LastSection == report.sections[Len(report.sections)]

SrcLen == Len(source_lines[1])

RECURSIVE Flatten(_)
Flatten(gs) == IF gs = <<>> THEN <<>> ELSE gs[1] \o Flatten(Tail(gs))

\* the group that holds position i of the sorted list
GroupIndexOf(gs, i) ==
    CHOOSE g \in 1..Len(gs) :
        /\ Len(Flatten(SubSeq(gs, 1, g - 1))) < i
        /\ i <= Len(Flatten(SubSeq(gs, 1, g)))

RenderedNums(snippet) == {snippet.lines[i].num : i \in 1..Len(snippet.lines)}

MarkedNums(snippet) ==
    {snippet.lines[i].num :
        i \in {j \in 1..Len(snippet.lines) : snippet.lines[j].marker = "uncovered"}}

Rank(file) == CHOOSE i \in 1..Len(ReportFiles) : ReportFiles[i] = file

\* the section generate_report owes a file
SectionOwed(file, d) ==
    IF disk[file] = None
    THEN WarningSection(file, Sorted(d[file]))
    ELSE SnippetSection(file, Sorted(d[file]), GroupsOf(Sorted(d[file]), context),
                        disk[file][1], context)

\* the file has a line, the context is positive and the line numbers are the
\* 1-indexed ones LCOV records: what is violated here does not rest on an
\* empty file, on no context or on a line 0
OrdinaryFile ==
    /\ SrcLen >= 1
    /\ context >= 1
    /\ \A i \in 1..Len(uncovered_nums) : uncovered_nums[i] >= 1

\* C5: the groups of a file cut its sorted line numbers into consecutive,
\* non-empty pieces, one snippet each, and two adjacent numbers are in the
\* same group exactly when their difference is at most 2 x context.
C5_SameGroupIffWithinTwiceContext ==
    JustRead =>
        /\ Flatten(groups) = uncovered_nums
        /\ \A g \in 1..Len(groups) : groups[g] # <<>>
        /\ Len(LastSection.snippets) = Len(groups)
        /\ \A i \in 1..(Len(uncovered_nums) - 1) :
               (GroupIndexOf(groups, i) = GroupIndexOf(groups, i + 1))
                   <=> (uncovered_nums[i + 1] - uncovered_nums[i] <= 2 * context)

C5_Witness ==
    /\ JustRead
    /\ OrdinaryFile
    /\ Len(uncovered_nums) = 3
    /\ uncovered_nums[1] < uncovered_nums[2]
    /\ uncovered_nums[2] < uncovered_nums[3]
    /\ Len(groups) = 1
    /\ \E i \in 1..2 : uncovered_nums[i + 1] - uncovered_nums[i] = 2 * context

\* C6 (as claimed): every rendered line number of a snippet, and the start
\* and the end of the window its heading reports, lie in 1..N for a source
\* file of N lines (stated for the ordinary files).
C6_WindowWithinFile ==
    (JustRead /\ OrdinaryFile) =>
        \A k \in 1..Len(LastSection.snippets) :
            LET sn == LastSection.snippets[k]
            IN  /\ RenderedNums(sn) \subseteq 1..SrcLen
                /\ sn.start_line \in 1..SrcLen
                /\ sn.end_line \in 1..SrcLen

\* C7: when generate_report has returned, the report has one section per
\* file with uncovered lines, in sorted identifier order; the section of a
\* file that could not be read is the warning with the compacted ranges of
\* its sorted line numbers and no snippet; and the sections of the other
\* files are the ones the report has without the unreadable files.
C7_UnreadableFileDegradesToWarning ==
    pc = "report_done" =>
        LET secs == report.sections
            listed == {f \in DOMAIN uncovered_lines : uncovered_lines[f] # <<>>}
            readable == {f \in DOMAIN uncovered_lines : disk[f] # None}
            without == [f \in readable |-> uncovered_lines[f]]
            Read(sec) == sec.kind # "warning"
        IN  /\ {secs[i].file : i \in 1..Len(secs)} = listed
            /\ \A i \in 1..(Len(secs) - 1) : Rank(secs[i].file) < Rank(secs[i + 1].file)
            /\ \A i \in 1..Len(secs) :
                   disk[secs[i].file] = None =>
                       /\ secs[i].kind = "warning"
                       /\ secs[i].snippets = <<>>
                       /\ Expand(secs[i].ranges) = Range(uncovered_lines[secs[i].file])
                       /\ secs[i].ranges =
                              format_line_ranges(Sorted(uncovered_lines[secs[i].file]))
            /\ SelectSeq(secs, Read) =
                   [i \in 1..Len(SortedFiles(without)) |->
                       SectionOwed(SortedFiles(without)[i], without)]
            /\ report.footer

C7_Witness ==
    /\ pc = "report_done"
    /\ context >= 1
    /\ Len(report.sections) = 2
    /\ report.sections[1].kind = "warning"
    /\ Len(uncovered_lines[report.sections[1].file]) >= 2
    /\ report.sections[2].kind = "snippets"
    /\ \E k \in 1..Len(report.sections[2].snippets) :
           MarkedNums(report.sections[2].snippets[k]) # {}

\* C8 (as claimed): the line numbers generate_report sorts and then
\* compacts, counts and groups are strictly increasing, with no duplicates
\* (stated for positive line numbers).
C8_SortedWithoutDuplicates ==
    (/\ pc \in {"report_loop", "report_done"}
     /\ report.sections # <<>>
     /\ \A i \in 1..Len(uncovered_nums) : uncovered_nums[i] >= 1) =>
        \A i \in 1..(Len(uncovered_nums) - 1) :
            uncovered_nums[i] < uncovered_nums[i + 1]

\* C9 (as claimed): the lines of a snippet that carry the uncovered marker
\* are exactly the line numbers of its group, all of them rendered (stated
\* for the ordinary files).
C9_MarkedIsWholeGroup ==
    (JustRead /\ OrdinaryFile) =>
        \A k \in 1..Len(groups) :
            LET sn == LastSection.snippets[k]
            IN  /\ Range(groups[k]) \subseteq RenderedNums(sn)
                /\ MarkedNums(sn) = Range(groups[k])

\* C9 (amended): every line number of a group that is a line of the file
\* (lies in 1..N) is rendered in the group's snippet with the uncovered
\* marker, and every other rendered line of the snippet carries the context
\* marker.
C9_MarkedIsGroupWithinFile ==
    JustRead =>
        /\ Len(LastSection.snippets) = Len(groups)
        /\ \A k \in 1..Len(groups) :
               LET sn == LastSection.snippets[k]
               IN  /\ Range(groups[k]) \cap (1..SrcLen) \subseteq RenderedNums(sn)
                   /\ MarkedNums(sn) = Range(groups[k]) \cap (1..SrcLen)
                   /\ \A i \in 1..Len(sn.lines) :
                          sn.lines[i].num \notin Range(groups[k])
                              => sn.lines[i].marker = "context"

C9_Witness ==
    /\ JustRead
    /\ OrdinaryFile
    /\ \E k \in 1..Len(groups) :
           LET sn == LastSection.snippets[k]
           IN  /\ Cardinality(MarkedNums(sn)) >= 1
               /\ RenderedNums(sn) \ MarkedNums(sn) # {}
               /\ \E n \in Range(groups[k]) : n > SrcLen

\* C10: the snippets of one file render disjoint sets of lines, in
\* ascending order: every line of a snippet is below every line of the
\* snippets after it.
C10_SnippetsDisjointAscending ==
    JustRead =>
        \A k, l \in 1..Len(LastSection.snippets) :
            k < l =>
                \A a \in RenderedNums(LastSection.snippets[k]),
                   b \in RenderedNums(LastSection.snippets[l]) : a < b

C10_Witness ==
    /\ JustRead
    /\ context >= 1
    /\ SrcLen >= 2
    /\ Len(LastSection.snippets) = 2
    /\ RenderedNums(LastSection.snippets[1]) # {}
    /\ RenderedNums(LastSection.snippets[2]) # {}

====
